---- MODULE Spec2Model ----
(***************************************************************************)
(* A model of the a2a-pdlc-playground agents: the module-level identifier  *)
(* registries and tool functions of sde_agent/agent.py and                 *)
(* agent_builder/agent.py, and the turn executors (invoke / stream) of     *)
(* SDEAgent, CoordinatorAgent and AgentBuilderTemplate.                    *)
(*                                                                         *)
(* Python values are modelled as follows.                                  *)
(*   dict            a function whose domain is the set of its keys        *)
(*   Optional[T]     a sequence of length 0 (None) or 1 (the value)        *)
(*   list            a sequence                                            *)
(*   str             a TLA+ string                                         *)
(* A function with side effects is an operator that takes the module state *)
(* it reads and returns a record holding its return value ("ret") together *)
(* with the state it leaves behind.                                        *)
(***************************************************************************)
EXTENDS Integers, Sequences, FiniteSets, Bags, TLC

(***************************************************************************)
(* Bounds of the model.                                                    *)
(***************************************************************************)
\* generate_code / generate_tests calls per run, each.
MaxIssue == 2
\* turns (invoke or stream calls) per run, over all agents.
MaxTurns == 2
\* events the reasoning capability produces in one turn.
MaxEvents == 2

(***************************************************************************)
(* Program constants.                                                      *)
(***************************************************************************)
RandLo == 1000000
RandHi == 9999999

TaskIdPrefix == "task_id_"
QaTaskIdPrefix == "qa_task_id_"
InvalidTaskId == "Error: Invalid task_id."
InvalidQaTaskId == "Error: Invalid qa_task_id."
AllTestsPassed == "All tests passed."

(***************************************************************************)
(* Python built-ins.                                                       *)
(***************************************************************************)
EmptyDict == [k \in {} |-> ""]

\* d.get(k, default)
Get(d, k, default) == IF k \in DOMAIN d THEN d[k] ELSE default

\* d[k] = v
Put(d, k, v) == [x \in DOMAIN d \cup {k} |-> IF x = k THEN v ELSE d[x]]

None == <<>>
Some(v) == <<v>>

\* truthiness of an Optional[str]: None and "" are falsy
Truthy(o) == o # None /\ o[1] # ""

Digits == <<"0", "1", "2", "3", "4", "5", "6", "7", "8", "9">>

\* str(n) of a non-negative int
RECURSIVE str(_)
str(n) == IF n < 10 THEN Digits[n + 1] ELSE str(n \div 10) \o Digits[(n % 10) + 1]

\* The outcomes of random.randint(lo, hi) the model draws: the two ends of
\* the inclusive range.
randint(lo, hi) == {n \in {lo, hi} : lo <= n /\ n <= hi}

\* "\n".join(texts)
RECURSIVE join(_)
join(texts) ==
    IF Len(texts) = 0 THEN ""
    ELSE IF Len(texts) = 1 THEN texts[1]
    ELSE texts[1] \o "\n" \o join(Tail(texts))

\* json.dumps of a dict of strings whose keys were inserted in the order of
\* KeyOrder (the documented keys, the stamped id last).
KeyOrder == <<"feature", "test_requirements", "constraints", "qa_task_id">>

RECURSIVE json_items(_, _)
json_items(d, i) ==
    IF i > Len(KeyOrder) THEN <<>>
    ELSE IF KeyOrder[i] \in DOMAIN d
         THEN <<"\"" \o KeyOrder[i] \o "\": \"" \o d[KeyOrder[i]] \o "\"">> \o json_items(d, i + 1)
         ELSE json_items(d, i + 1)

RECURSIVE join_comma(_)
join_comma(items) ==
    IF Len(items) = 0 THEN ""
    ELSE IF Len(items) = 1 THEN items[1]
    ELSE items[1] \o ", " \o join_comma(Tail(items))

json_dumps(d) == "{" \o join_comma(json_items(d, 1)) \o "}"

(***************************************************************************)
(* sde_agent/agent.py: the coding-task tools.                              *)
(***************************************************************************)
generated_code(task_id, task_details) ==
    "# Auto-generated code for task " \o task_id \o "\n"
    \o "# Language: " \o Get(task_details, "language", "N/A") \o "\n"
    \o "# Requirements: " \o Get(task_details, "requirements", "N/A") \o "\n"
    \o "# Constraints: " \o Get(task_details, "constraints", "N/A") \o "\n\n"
    \o "def solution_function():\n"
    \o "    # TODO: Implement the solution here\n"
    \o "    pass\n"

\* generate_code that takes the next number when the id it drew is in the
\* registry already
generate_code_probing(ids, task_details, n) ==
    LET task_id == IF TaskIdPrefix \o str(n) \in ids THEN TaskIdPrefix \o str(n + 1)
                   ELSE TaskIdPrefix \o str(n)
        details == Put(task_details, "task_id", task_id)
    IN  [ret |-> [task_id |-> task_id,
                  code |-> generated_code(task_id, details),
                  task_details |-> details],
         task_ids |-> ids \cup {task_id},
         task_details |-> details]

\* generate_code that checks for the documented keys first and answers an
\* error record when one is missing
generate_code_validating(ids, task_details, n) ==
    LET task_id == TaskIdPrefix \o str(n)
        details == Put(task_details, "task_id", task_id)
    IN  IF {"language", "requirements", "constraints"} \subseteq DOMAIN task_details
        THEN [ret |-> [task_id |-> task_id,
                       code |-> generated_code(task_id, details),
                       task_details |-> details],
              task_ids |-> ids \cup {task_id},
              task_details |-> details]
        ELSE [ret |-> [task_id |-> "", code |-> "", task_details |-> task_details,
                       error |-> "Error: missing task details."],
              task_ids |-> ids,
              task_details |-> task_details]

\* generate_code without line 33: the id is returned but never registered
generate_code_unregistered(ids, task_details, n) ==
    LET task_id == TaskIdPrefix \o str(n)
        details == Put(task_details, "task_id", task_id)
    IN  [ret |-> [task_id |-> task_id,
                  code |-> generated_code(task_id, details),
                  task_details |-> details],
         task_ids |-> ids,
         task_details |-> details]

\* generate_code(task_details) with the module's task_ids = ids and n the
\* outcome of random.randint.  task_details is the caller's dict after the
\* call: it is mutated in place.
generate_code(ids, task_details, n) ==
    LET task_id == TaskIdPrefix \o str(n)
        details == Put(task_details, "task_id", task_id)
    IN  [ret |-> [task_id |-> task_id,
                  code |-> generated_code(task_id, details),
                  task_details |-> details],
         task_ids |-> ids \cup {task_id},
         task_details |-> details]

\* run_tests that drops from the registry the id it has tested
run_tests_consuming(ids, task_id, code) ==
    [ret |-> IF task_id \notin ids
             THEN [task_id |-> task_id, status |-> InvalidTaskId]
             ELSE [task_id |-> task_id, status |-> AllTestsPassed],
     task_ids |-> ids \ {task_id}]

\* run_tests that registers the id it was asked about
run_tests_registering(ids, task_id, code) ==
    [ret |-> IF task_id \notin ids
             THEN [task_id |-> task_id, status |-> InvalidTaskId]
             ELSE [task_id |-> task_id, status |-> AllTestsPassed],
     task_ids |-> ids \cup {task_id}]

run_tests(ids, task_id, code) ==
    [ret |-> IF task_id \notin ids
             THEN [task_id |-> task_id, status |-> InvalidTaskId]
             ELSE [task_id |-> task_id, status |-> AllTestsPassed],
     task_ids |-> ids]

\* return_solution that defaults a missing key the way generate_code does
return_solution_na_default(ids, task_details, code_info, test_results) ==
    [ret |-> [task_id |-> Get(code_info, "task_id", "N/A"),
              code |-> Get(code_info, "code", "N/A"),
              test_status |-> Get(test_results, "status", "N/A"),
              task_details |-> task_details],
     task_ids |-> ids,
     task_details |-> task_details,
     code_info |-> code_info,
     test_results |-> test_results]

\* return_solution that reads the status from the wrong record
return_solution_wrong_record(ids, task_details, code_info, test_results) ==
    [ret |-> [task_id |-> Get(code_info, "task_id", ""),
              code |-> Get(code_info, "code", ""),
              test_status |-> Get(code_info, "status", ""),
              task_details |-> task_details],
     task_ids |-> ids,
     task_details |-> task_details,
     code_info |-> code_info,
     test_results |-> test_results]

\* return_solution that consults the registry for the id it is given
return_solution_gated(ids, task_details, code_info, test_results) ==
    [ret |-> [task_id |-> Get(code_info, "task_id", ""),
              code |-> Get(code_info, "code", ""),
              test_status |-> IF Get(code_info, "task_id", "") \in ids
                              THEN Get(test_results, "status", "")
                              ELSE InvalidTaskId,
              task_details |-> task_details],
     task_ids |-> ids,
     task_details |-> task_details,
     code_info |-> code_info,
     test_results |-> test_results]

return_solution(ids, task_details, code_info, test_results) ==
    [ret |-> [task_id |-> Get(code_info, "task_id", ""),
              code |-> Get(code_info, "code", ""),
              test_status |-> Get(test_results, "status", ""),
              task_details |-> task_details],
     task_ids |-> ids,
     task_details |-> task_details,
     code_info |-> code_info,
     test_results |-> test_results]

(***************************************************************************)
(* agent_builder/agent.py: the QA-task tools.  The module defines          *)
(* run_tests twice; the second definition is what the name run_tests       *)
(* denotes once the module is loaded.                                      *)
(***************************************************************************)
generated_tests(qa_task_id, qa_details) ==
    "# Auto-generated test cases for QA task " \o qa_task_id \o "\n"
    \o "# Feature: " \o Get(qa_details, "feature", "N/A") \o "\n"
    \o "# Test Requirements: " \o Get(qa_details, "test_requirements", "N/A") \o "\n"
    \o "# Constraints: " \o Get(qa_details, "constraints", "N/A") \o "\n\n"
    \o "def test_feature():\n"
    \o "    # TODO: Implement the actual test logic here\n"
    \o "    assert True\n"

\* generate_tests that kept the coding-task prefix of the code it was copied from
generate_tests_task_prefix(qids, qa_details, n) ==
    LET qa_task_id == TaskIdPrefix \o str(n)
        details == Put(qa_details, "qa_task_id", qa_task_id)
    IN  [ret |-> [qa_task_id |-> qa_task_id,
                  tests |-> generated_tests(qa_task_id, details),
                  qa_details |-> details],
         qa_task_ids |-> qids \cup {qa_task_id},
         qa_details |-> details]

generate_tests(qids, qa_details, n) ==
    LET qa_task_id == QaTaskIdPrefix \o str(n)
        details == Put(qa_details, "qa_task_id", qa_task_id)
    IN  [ret |-> [qa_task_id |-> qa_task_id,
                  tests |-> generated_tests(qa_task_id, details),
                  qa_details |-> details],
         qa_task_ids |-> qids \cup {qa_task_id},
         qa_details |-> details]

\* the first definition of run_tests (lines 53-74)
qa_run_tests(qids, qa_task_id, tests) ==
    [ret |-> IF qa_task_id \notin qids
             THEN [qa_task_id |-> qa_task_id, status |-> InvalidQaTaskId]
             ELSE [qa_task_id |-> qa_task_id, status |-> AllTestsPassed],
     qa_task_ids |-> qids]

\* the second definition of run_tests (lines 102-124)
ab_run_tests(ids, task_id, code) ==
    [ret |-> IF task_id \notin ids
             THEN [task_id |-> task_id, status |-> InvalidTaskId]
             ELSE [task_id |-> task_id, status |-> AllTestsPassed],
     task_ids |-> ids]

\* what agent_builder.agent.run_tests(a, b) evaluates to: the later def
\* statement rebinds the name, so the call reads the module's task_ids and
\* never its qa_task_ids.
module_run_tests(ids, qids, a, b) ==
    LET r == ab_run_tests(ids, a, b)
    IN  [ret |-> r.ret, task_ids |-> r.task_ids, qa_task_ids |-> qids]

return_feedback(ids, qids, qa_details, tests_info, feedback_instructions) ==
    [ret |-> [qa_task_id |-> Get(qa_details, "qa_task_id", ""),
              feedback |->
                  "Test execution status: "
                  \o Get(tests_info, "status", "No status provided") \o ". "
                  \o "QA Details: " \o json_dumps(qa_details) \o ". "
                  \o (IF Truthy(feedback_instructions)
                      THEN "Additional feedback: " \o feedback_instructions[1]
                      ELSE "")],
     task_ids |-> ids,
     qa_task_ids |-> qids,
     qa_details |-> qa_details,
     tests_info |-> tests_info]

ab_return_solution(ids, task_details, code_info, test_results) ==
    [ret |-> [task_id |-> Get(code_info, "task_id", ""),
              code |-> Get(code_info, "code", ""),
              test_status |-> Get(test_results, "status", ""),
              task_details |-> task_details],
     task_ids |-> ids,
     task_details |-> task_details,
     code_info |-> code_info,
     test_results |-> test_results]

(***************************************************************************)
(* The turn executors: SDEAgent (sde_agent/agent.py), CoordinatorAgent     *)
(* (coordinator_agent/agent.py) and AgentBuilderTemplate                   *)
(* (agent_builder/agent.py, built around the qa_agent of builder.py).      *)
(* Each owns a Runner with its own InMemorySessionService.                 *)
(*                                                                         *)
(* An event of the reasoning capability is a record                        *)
(*   [final |-> is_final_response(), content |-> Optional[Content]]        *)
(* a Content is [parts |-> Optional[list of Part]] and a Part is           *)
(*   [text |-> Optional[str], function_response |-> Optional[...]].        *)
(***************************************************************************)
SDE == "sde_agent"
COORD == "Coordinator"
QA == "qa_agent"
Agents == {SDE, COORD, QA}

\* a Python value that is a str or a dict
PyStr(t) == [type |-> "str", str |-> t]
PyDict(d) == [type |-> "dict", dict |-> d]

\* get_session that finds nothing, whatever the store holds
get_session_missing(store, session_id) == None

\* session_service.get_session: the stored session, or None
get_session(store, session_id) ==
    IF session_id \in DOMAIN store THEN Some(store[session_id]) ELSE None

\* session_service.create_session(state={}, session_id=...): a session with
\* that id and state and no messages is stored under the id
create_session(store, state, session_id) ==
    LET session == [id |-> session_id, state |-> state, messages |-> 0]
    IN  [store |-> [x \in DOMAIN store \cup {session_id} |->
                       IF x = session_id THEN session ELSE store[x]],
         session |-> session]

\* the handler creates a session whatever get_session returned
resolve_session_always_creating(store, session_id) ==
    LET c == create_session(store, EmptyDict, session_id)
    IN  [store |-> c.store, session |-> c.session, created |-> TRUE]

\* the head of every invoke and stream: get_session, then create_session if
\* it returned None
resolve_session(store, session_id) ==
    LET session == get_session(store, session_id)
    IN  IF session = None
        THEN LET c == create_session(store, EmptyDict, session_id)
             IN  [store |-> c.store, session |-> c.session, created |-> TRUE]
        ELSE [store |-> store, session |-> session[1], created |-> FALSE]

\* one session service shared by every agent, its sessions kept by session
\* id alone
set_store_shared(all, agent, store) == [b \in DOMAIN all |-> store]

\* the store of self._runner.session_service after a turn of agent: every
\* agent constructs its own InMemorySessionService and names its own
\* app_name, so only the store of the agent taking the turn is written
set_store(all, agent, store) == [all EXCEPT ![agent] = store]

\* the Runner appends new_message to the session it is run on
runner_append(store, session_id) ==
    [store EXCEPT ![session_id].messages = @ + 1]

\* [p.text for p in parts if p.text]
RECURSIVE texts(_)
texts(parts) ==
    IF Len(parts) = 0 THEN <<>>
    ELSE IF Truthy(parts[1].text)
         THEN <<parts[1].text[1]>> \o texts(Tail(parts))
         ELSE texts(Tail(parts))

\* content and content.parts
HasParts(content) ==
    content # None /\ content[1].parts # None /\ Len(content[1].parts[1]) > 0

\* what self._runner.run(...) is bound to: SDEAgent.invoke keeps the
\* generator, the other two wrap it in list()
Generator(items) == [type |-> "generator", items |-> items]
List(items) == [type |-> "list", items |-> items]

\* the tail of invoke:
\*   if not events or not events[-1].content or not events[-1].content.parts:
\*     return ""
\*   return "\n".join([p.text for p in events[-1].content.parts if p.text])
\* A generator object is truthy and cannot be subscripted.
invoke_tail(events) ==
    IF events.type = "generator"
    THEN [raised |-> "TypeError", value |-> ""]
    ELSE IF Len(events.items) = 0 \/ ~HasParts(events.items[Len(events.items)].content)
         THEN [raised |-> "", value |-> ""]
         ELSE [raised |-> "",
               value |-> join(texts(events.items[Len(events.items)].content[1].parts[1]))]

\* invoke that returns the text of the first part of the last event only
CoordinatorAgent_invoke_first_part(items) ==
    IF Len(items) = 0 \/ ~HasParts(items[Len(items)].content)
    THEN [raised |-> "", value |-> ""]
    ELSE [raised |-> "",
          value |-> IF Truthy(items[Len(items)].content[1].parts[1][1].text)
                    THEN items[Len(items)].content[1].parts[1][1].text[1]
                    ELSE ""]

SDEAgent_invoke(items) == invoke_tail(Generator(items))
CoordinatorAgent_invoke(items) == invoke_tail(List(items))
AgentBuilderTemplate_invoke(items) == invoke_tail(List(items))

invoke(agent, items) ==
    IF agent = SDE THEN SDEAgent_invoke(items)
    ELSE IF agent = COORD THEN CoordinatorAgent_invoke(items)
    ELSE AgentBuilderTemplate_invoke(items)

\* whether the runner is driven at all: a generator that is never iterated
\* never runs
invoke_drives(agent) == agent # SDE

\* what invoke does when the capability raises while list(...) drives the
\* runner: no handler encloses the call, the exception leaves invoke
CapabilityError == "CapabilityError"
invoke_failing(agent) ==
    IF invoke_drives(agent) THEN [raised |-> CapabilityError, value |-> ""]
    ELSE invoke(agent, <<>>)

\* function_response.model_dump()
model_dump(fr) == [id |-> fr.id, name |-> fr.name, response |-> fr.response]

\* the body of stream's loop for a final response: the content of the
\* terminal event, or the fault raised while computing it
stream_response(event) ==
    IF HasParts(event.content) /\ Truthy(event.content[1].parts[1][1].text)
    THEN [raised |-> "", response |-> PyStr(join(texts(event.content[1].parts[1])))]
    ELSE IF HasParts(event.content)
            /\ \E i \in DOMAIN event.content[1].parts[1] :
                event.content[1].parts[1][i].function_response # None
         THEN \* next((p.function_response.model_dump() for p in parts)):
              \* the first part's, whether or not it has one
              IF event.content[1].parts[1][1].function_response = None
              THEN [raised |-> "AttributeError", response |-> PyStr("")]
              ELSE [raised |-> "",
                    response |-> PyDict(model_dump(
                        event.content[1].parts[1][1].function_response[1]))]
         ELSE [raised |-> "", response |-> PyStr("")]

updates_text(agent) ==
    IF agent = QA THEN "Processing the QA request..." ELSE "Processing the SDE request..."

\* one iteration of stream's loop: what it yields, or the fault it raises
stream_yield(agent, event) ==
    IF event.final
    THEN LET r == stream_response(event)
         IN  [raised |-> r.raised,
              out |-> IF r.raised = ""
                      THEN <<[is_task_complete |-> TRUE, content |-> r.response]>>
                      ELSE <<>>]
    ELSE [raised |-> "",
          out |-> <<[is_task_complete |-> FALSE, updates |-> updates_text(agent)]>>]

\* The capability's events.
TextPart(t) == [text |-> Some(t), function_response |-> None]
OtherPart == [text |-> None, function_response |-> None]
ResponsePart ==
    [text |-> None,
     function_response |->
         Some([id |-> None, name |-> "run_tests",
               response |-> [task_id |-> "task_id_1000000", status |-> AllTestsPassed]])]

Content(parts) == Some([parts |-> Some(parts)])

ContentInputs ==
    {None,
     Some([parts |-> None]),
     Content(<<>>),
     Content(<<TextPart("a")>>),
     Content(<<TextPart("a"), TextPart("b")>>),
     Content(<<OtherPart, TextPart("b")>>),
     Content(<<ResponsePart>>),
     Content(<<OtherPart, ResponsePart>>)}

EventInputs == [final : BOOLEAN, content : ContentInputs]

SessionIds == {"s1", "s2"}

(***************************************************************************)
(* State.                                                                  *)
(***************************************************************************)
VARIABLES
    task_ids,       \* sde_agent/agent.py: task_ids
    ab_task_ids,    \* agent_builder/agent.py: task_ids
    qa_task_ids,    \* agent_builder/agent.py: qa_task_ids
    returned,       \* history: the bag of the ids generate_code returned
    returnedQA,     \* history: the bag of the ids generate_tests returned
    last,           \* the last tool call: name, arguments, result, and the
                    \* argument objects as the call left them
    pipe,           \* what the caller holds of its generate -> run -> finalize chain
    sessions,       \* per agent, its session service's store: session id -> session
    created,        \* history: create_session calls per agent and session id
    calls,          \* history: invoke and stream calls per agent and session id
    driven,         \* history: runs of the Runner per agent and session id
    turns,          \* history: invoke and stream calls so far
    stream,         \* the stream call, if the last turn is one
    emitted,        \* what that stream call has yielded so far
    result,         \* the invoke call, if the last turn is one, and what it
                    \* returned or raised
    fault,          \* whether the reasoning capability raised while the last
                    \* turn was driven
    turnIds,        \* history: the ids generate_code issued during the last
                    \* stream call
    abandoned,      \* history: the ids issued during, and the agents and
                    \* session ids of, the stream calls the caller abandoned
    threads,        \* per thread running tools of sde_agent/agent.py, the call
                    \* it is in: its position and its local variables
    proc,           \* the server process: its entry point, its environment,
                    \* its position in main and what it has built
    agree,          \* one final event given to invoke and to stream of one
                    \* agent, and what each call returned or yielded
    step,           \* the turn in progress, statement by statement: its
                    \* position and its local variable session
    det,            \* two runs of one turn: the capability's script, the form
                    \* of the call, and per run its session id, the id
                    \* generate_code drew and what the call yielded
    served          \* the turn the started server took: the query, the message
                    \* the runner was run on, the child the capability handed
                    \* the turn to, the result, and the result of the child's
                    \* own executor called with the query on a fresh session

toolVars == <<task_ids, ab_task_ids, qa_task_ids, returned, returnedQA, last, pipe>>
turnVars ==
    <<sessions, created, calls, driven, turns, stream, emitted, result, fault,
      turnIds, abandoned>>
concVars == <<threads>>
startVars == <<proc, served>>
detVars == <<det>>
obsVars == <<agree, step>>
auxVars == <<concVars, startVars, detVars, obsVars>>

(***************************************************************************)
(* The arguments callers pass to the tools.                                *)
(***************************************************************************)
\* details with none, one and all of the keys the docstrings name
TaskDetailsInputs ==
    {EmptyDict, [language |-> "python"],
     [language |-> "python", requirements |-> "scraper", constraints |-> "none"]}
QaDetailsInputs ==
    {EmptyDict, [feature |-> "login"],
     [feature |-> "login", test_requirements |-> "flows", constraints |-> "none"]}

CodingIds == {TaskIdPrefix \o str(n) : n \in randint(RandLo, RandHi)}
QaIds == {QaTaskIdPrefix \o str(n) : n \in randint(RandLo, RandHi)}
\* every id a generate call can return, and one that none can
IdInputs == CodingIds \cup QaIds \cup {"task_id_0"}

CodeInputs == {"pass"} \cup (IF pipe.stage >= 1 THEN {pipe.r.code} ELSE {})

\* run_tests is called on any id with some code, and on the id and the code
\* the chain holds
RunInputs ==
    {[task_id |-> id, code |-> "pass"] : id \in IdInputs}
    \cup (IF pipe.stage >= 1
          THEN {[task_id |-> pipe.r.task_id, code |-> pipe.r.code]}
          ELSE {})

\* return_feedback is called without instructions, with empty ones and
\* with some, on details as given to or as left by generate_tests
FeedbackInputs ==
    {[qa_details |-> EmptyDict, tests_info |-> EmptyDict, feedback_instructions |-> None],
     [qa_details |-> [feature |-> "login"], tests_info |-> [status |-> AllTestsPassed],
      feedback_instructions |-> Some("flaky")],
     [qa_details |-> EmptyDict, tests_info |-> [status |-> AllTestsPassed],
      feedback_instructions |-> Some("")]}
    \cup (IF last.op = "generate_tests"
          THEN {[qa_details |-> last.after.qa_details,
                 tests_info |-> [status |-> AllTestsPassed],
                 feedback_instructions |-> None]}
          ELSE {})

\* the records finalize is given, with each of the keys it reads present or
\* absent
CodeInfoInputs ==
    {EmptyDict, [task_id |-> "task_id_0"], [code |-> "pass"],
     [task_id |-> "task_id_0", code |-> "pass"]}
TestResultsInputs == {EmptyDict, [status |-> AllTestsPassed]}
PresenceInputs ==
    {[task_details |-> [language |-> "python"], code_info |-> ci, test_results |-> tr] :
        ci \in CodeInfoInputs, tr \in TestResultsInputs}

AbSolutionInputs ==
    {[task_details |-> EmptyDict, code_info |-> EmptyDict, test_results |-> EmptyDict],
     [task_details |-> [language |-> "python"], code_info |-> [task_id |-> "task_id_0"],
      test_results |-> [status |-> AllTestsPassed]]}
    \cup PresenceInputs

\* finalize is called with what the chain produced, with nothing, or with a
\* guessed id
SolutionInputs ==
    {[task_details |-> pipe.details, code_info |-> pipe.r, test_results |-> pipe.outcome],
     [task_details |-> EmptyDict, code_info |-> EmptyDict, test_results |-> EmptyDict],
     [task_details |-> pipe.details, code_info |-> [task_id |-> "task_id_0"],
      test_results |-> [status |-> AllTestsPassed]]}
    \cup PresenceInputs

ToolInit ==
    /\ task_ids = {}
    /\ ab_task_ids = {}
    /\ qa_task_ids = {}
    /\ returned = EmptyBag
    /\ returnedQA = EmptyBag
    /\ last = [op |-> "none", args |-> EmptyDict, ret |-> EmptyDict, after |-> EmptyDict]
    /\ pipe = [stage |-> 0, details |-> EmptyDict, r |-> EmptyDict,
               outcome |-> EmptyDict, solution |-> EmptyDict]

(***************************************************************************)
(* Tool calls on sde_agent/agent.py.                                       *)
(***************************************************************************)
GenerateCode ==
    /\ BagCardinality(returned) < MaxIssue
    /\ \E d \in TaskDetailsInputs, n \in randint(RandLo, RandHi) :
        LET r == generate_code(task_ids, d, n)
        IN  /\ task_ids' = r.task_ids
            /\ returned' = returned (+) SetToBag({r.ret.task_id})
            /\ last' = [op |-> "generate_code",
                        args |-> [task_details |-> d],
                        ret |-> r.ret,
                        after |-> [task_details |-> r.task_details]]
            /\ pipe' = [stage |-> 1, details |-> r.task_details, r |-> r.ret,
                        outcome |-> EmptyDict, solution |-> EmptyDict]
    /\ UNCHANGED <<ab_task_ids, qa_task_ids, returnedQA>>
    /\ UNCHANGED turnVars
    /\ UNCHANGED auxVars

RunTests ==
    /\ \E a \in RunInputs :
        LET id == a.task_id
            code == a.code
            r == run_tests(task_ids, id, code)
        IN  /\ task_ids' = r.task_ids
            /\ last' = [op |-> "run_tests", args |-> a, ret |-> r.ret, after |-> a]
            /\ pipe' = IF pipe.stage = 1 /\ id = pipe.r.task_id /\ code = pipe.r.code
                       THEN [pipe EXCEPT !.stage = 2, !.outcome = r.ret]
                       ELSE pipe
    /\ UNCHANGED <<ab_task_ids, qa_task_ids, returned, returnedQA>>
    /\ UNCHANGED turnVars
    /\ UNCHANGED auxVars

ReturnSolution ==
    /\ \E a \in SolutionInputs :
        LET td == a.task_details
            ci == a.code_info
            tr == a.test_results
        IN
        LET r == return_solution(task_ids, td, ci, tr)
            call == [op |-> "return_solution", args |-> a, ret |-> r.ret,
                     after |-> [task_details |-> r.task_details,
                                code_info |-> r.code_info,
                                test_results |-> r.test_results]]
        IN  /\ task_ids' = r.task_ids
            /\ last' = call
            /\ pipe' = IF pipe.stage = 2 /\ td = pipe.details /\ ci = pipe.r
                          /\ tr = pipe.outcome
                       THEN [pipe EXCEPT !.stage = 3, !.solution = r.ret]
                       ELSE pipe
    /\ UNCHANGED <<ab_task_ids, qa_task_ids, returned, returnedQA>>
    /\ UNCHANGED turnVars
    /\ UNCHANGED auxVars

(***************************************************************************)
(* Tool calls on agent_builder/agent.py, by the names the module exports.  *)
(***************************************************************************)
GenerateTests ==
    /\ BagCardinality(returnedQA) < MaxIssue
    /\ \E d \in QaDetailsInputs, n \in randint(RandLo, RandHi) :
        LET r == generate_tests(qa_task_ids, d, n)
        IN  /\ qa_task_ids' = r.qa_task_ids
            /\ returnedQA' = returnedQA (+) SetToBag({r.ret.qa_task_id})
            /\ last' = [op |-> "generate_tests",
                        args |-> [qa_details |-> d],
                        ret |-> r.ret,
                        after |-> [qa_details |-> r.qa_details]]
    /\ UNCHANGED <<task_ids, ab_task_ids, returned, pipe>>
    /\ UNCHANGED turnVars
    /\ UNCHANGED auxVars

ModuleRunTests ==
    /\ \E id \in IdInputs :
        LET r == module_run_tests(ab_task_ids, qa_task_ids, id, "pass")
            a == [task_id |-> id, code |-> "pass"]
        IN  /\ ab_task_ids' = r.task_ids
            /\ qa_task_ids' = r.qa_task_ids
            /\ last' = [op |-> "agent_builder.run_tests", args |-> a, ret |-> r.ret,
                        after |-> a]
    /\ UNCHANGED <<task_ids, returned, returnedQA, pipe>>
    /\ UNCHANGED turnVars
    /\ UNCHANGED auxVars

ReturnFeedback ==
    /\ \E a \in FeedbackInputs :
        LET qd == a.qa_details
            ti == a.tests_info
            fi == a.feedback_instructions
            r == return_feedback(ab_task_ids, qa_task_ids, qd, ti, fi)
            call == [op |-> "return_feedback", args |-> a, ret |-> r.ret,
                     after |-> [qa_details |-> r.qa_details, tests_info |-> r.tests_info,
                                feedback_instructions |-> fi]]
        IN  /\ ab_task_ids' = r.task_ids
            /\ qa_task_ids' = r.qa_task_ids
            /\ last' = call
    /\ UNCHANGED <<task_ids, returned, returnedQA, pipe>>
    /\ UNCHANGED turnVars
    /\ UNCHANGED auxVars

AbReturnSolution ==
    /\ \E a \in AbSolutionInputs :
        LET td == a.task_details
            ci == a.code_info
            tr == a.test_results
            r == ab_return_solution(ab_task_ids, td, ci, tr)
            call == [op |-> "agent_builder.return_solution", args |-> a, ret |-> r.ret,
                     after |-> [task_details |-> r.task_details,
                                code_info |-> r.code_info,
                                test_results |-> r.test_results]]
        IN  /\ ab_task_ids' = r.task_ids
            /\ last' = call
    /\ UNCHANGED <<task_ids, qa_task_ids, returned, returnedQA, pipe>>
    /\ UNCHANGED turnVars
    /\ UNCHANGED auxVars

(***************************************************************************)
(* Turns.  One turn runs at a time: invoke is synchronous, and a stream    *)
(* call is taken up to its end before the next turn starts.                *)
(***************************************************************************)
Zero == [a \in Agents |-> [x \in SessionIds |-> 0]]

\* an event before the last one of a turn
Progress == [final |-> FALSE, content |-> None]

\* n events ending in e
Items(n, e) == [i \in 1 .. n |-> IF i = n THEN e ELSE Progress]

NoStream == [agent |-> SDE, session_id |-> "s1", pc |-> "idle"]
NoResult == [agent |-> SDE, session_id |-> "s1", items |-> <<>>, called |-> FALSE,
             raised |-> "", value |-> ""]

\* invoke never asks an event whether it is a final response
InvokeEventInputs == {e \in EventInputs : e.final}

TurnInit ==
    /\ sessions = [a \in Agents |-> EmptyDict]
    /\ created = Zero
    /\ calls = Zero
    /\ driven = Zero
    /\ turns = 0
    /\ stream = NoStream
    /\ emitted = <<>>
    /\ result = NoResult
    /\ fault = FALSE
    /\ turnIds = {}
    /\ abandoned = [ids |-> {}, sessions |-> {}]

Bump(counter, a, x) == [counter EXCEPT ![a][x] = @ + 1]

\* agent.invoke(query, session_id), the capability producing items
InvokeBody ==
    /\ stream.pc # "streaming"
    /\ turns < MaxTurns
    /\ \E a \in Agents, x \in SessionIds, n \in 0 .. MaxEvents, e \in InvokeEventInputs,
          f \in BOOLEAN :
        LET rs == resolve_session(sessions[a], x)
            items == Items(n, e)
            out == IF f THEN invoke_failing(a) ELSE invoke(a, items)
        IN  /\ n = 0 => e.content = None
            \* the events of a run that raises never reach invoke
            /\ f => (n = 0 /\ invoke_drives(a))
            /\ fault' = f
            /\ sessions' = set_store(sessions, a,
                                     IF invoke_drives(a)
                                     THEN runner_append(rs.store, rs.session.id)
                                     ELSE rs.store)
            /\ created' = IF rs.created THEN Bump(created, a, x) ELSE created
            /\ calls' = Bump(calls, a, x)
            /\ driven' = IF invoke_drives(a) THEN Bump(driven, a, x) ELSE driven
            /\ result' = [agent |-> a, session_id |-> x, items |-> items, called |-> TRUE,
                          raised |-> out.raised, value |-> out.value]
    /\ turns' = turns + 1
    /\ stream' = NoStream
    /\ emitted' = <<>>
    /\ UNCHANGED <<turnIds, abandoned>>
    /\ UNCHANGED toolVars

Invoke ==
    /\ InvokeBody
    /\ UNCHANGED auxVars

\* agent.stream(query, session_id) up to its first await on run_async
StreamStart ==
    /\ stream.pc # "streaming"
    /\ turns < MaxTurns
    /\ \E a \in Agents, x \in SessionIds :
        LET rs == resolve_session(sessions[a], x)
        IN  /\ sessions' = set_store(sessions, a, runner_append(rs.store, rs.session.id))
            /\ created' = IF rs.created THEN Bump(created, a, x) ELSE created
            /\ calls' = Bump(calls, a, x)
            /\ driven' = Bump(driven, a, x)
            /\ stream' = [agent |-> a, session_id |-> x, pc |-> "streaming"]
    /\ emitted' = <<>>
    /\ turns' = turns + 1
    /\ result' = NoResult
    /\ fault' = FALSE
    /\ turnIds' = {}
    /\ UNCHANGED abandoned
    /\ UNCHANGED toolVars
    /\ UNCHANGED auxVars

\* run_async produces an event and the loop body runs on it
StreamEvent ==
    /\ stream.pc = "streaming"
    /\ Len(emitted) < MaxEvents
    /\ \E e \in EventInputs :
        LET y == stream_yield(stream.agent, e)
        IN  /\ emitted' = emitted \o y.out
            /\ stream' = IF y.raised = "" THEN stream ELSE [stream EXCEPT !.pc = "raised"]
    /\ UNCHANGED <<sessions, created, calls, driven, turns, result, fault>>
    /\ UNCHANGED <<turnIds, abandoned>>
    /\ UNCHANGED toolVars
    /\ UNCHANGED auxVars

\* run_async raises instead of producing its next event: no handler
\* encloses the loop, the exception leaves stream
StreamFail ==
    /\ stream.pc = "streaming"
    /\ stream' = [stream EXCEPT !.pc = "raised"]
    /\ fault' = TRUE
    /\ UNCHANGED <<sessions, created, calls, driven, turns, emitted, result>>
    /\ UNCHANGED <<turnIds, abandoned>>
    /\ UNCHANGED toolVars
    /\ UNCHANGED auxVars

\* run_async is exhausted and stream returns
StreamEnd ==
    /\ stream.pc = "streaming"
    /\ stream' = [stream EXCEPT !.pc = "ended"]
    /\ UNCHANGED <<sessions, created, calls, driven, turns, emitted, result, fault>>
    /\ UNCHANGED <<turnIds, abandoned>>
    /\ UNCHANGED toolVars
    /\ UNCHANGED auxVars

(***************************************************************************)
(* A streamed turn of the SDE agent whose capability calls the             *)
(* generate_code tool, and a caller that abandons the stream.              *)
(***************************************************************************)
\* the Runner calls generate_code between two events of a stream call
StreamGenerate ==
    /\ stream.pc = "streaming"
    /\ stream.agent = SDE
    /\ BagCardinality(returned) < MaxIssue
    /\ \E d \in TaskDetailsInputs, n \in randint(RandLo, RandHi) :
        LET r == generate_code(task_ids, d, n)
        IN  /\ task_ids' = r.task_ids
            /\ returned' = returned (+) SetToBag({r.ret.task_id})
            /\ turnIds' = turnIds \cup {r.ret.task_id}
            /\ last' = [op |-> "generate_code",
                        args |-> [task_details |-> d],
                        ret |-> r.ret,
                        after |-> [task_details |-> r.task_details]]
            /\ pipe' = [stage |-> 1, details |-> r.task_details, r |-> r.ret,
                        outcome |-> EmptyDict, solution |-> EmptyDict]
    /\ UNCHANGED <<ab_task_ids, qa_task_ids, returnedQA>>
    /\ UNCHANGED <<sessions, created, calls, driven, turns, stream, emitted, result, fault,
                   abandoned>>
    /\ UNCHANGED auxVars

\* stream is closed at a yield, or cancelled while it awaits run_async: the
\* function has no try/finally, so closing it runs nothing.  issued are the
\* ids generate_code issued during the call.
stream_close_rolling_back(ids, issued, store, session_id) ==
    [task_ids |-> ids \ issued, store |-> store]

stream_close(ids, issued, store, session_id) ==
    [task_ids |-> ids, store |-> store]

\* the caller stops consuming a stream call before its terminal event
StreamAbandon ==
    /\ stream.pc = "streaming"
    /\ \A i \in DOMAIN emitted : ~emitted[i].is_task_complete
    /\ LET c == stream_close(task_ids, turnIds, sessions[stream.agent], stream.session_id)
       IN  /\ task_ids' = c.task_ids
           /\ sessions' = [sessions EXCEPT ![stream.agent] = c.store]
    /\ stream' = [stream EXCEPT !.pc = "abandoned"]
    /\ abandoned' = [ids |-> abandoned.ids \cup turnIds,
                     sessions |-> abandoned.sessions
                                  \cup {<<stream.agent, stream.session_id>>}]
    /\ UNCHANGED <<created, calls, driven, turns, emitted, result, fault, turnIds>>
    /\ UNCHANGED <<ab_task_ids, qa_task_ids, returned, returnedQA, last, pipe>>
    /\ UNCHANGED auxVars

(***************************************************************************)
(* Tool calls of sde_agent/agent.py made by several turns at once, each on *)
(* its own thread, one bytecode-level access to the shared set per step.   *)
(* Nothing locks task_ids; a call on a set object (add, the in test) runs  *)
(* to its end before another thread touches the set.                       *)
(***************************************************************************)
\* threads running tool calls at once
MaxThreads == 2
Threads == 1 .. MaxThreads

Idle == [pc |-> "idle", op |-> "none", task_id |-> "", seen |-> {}, issued |-> FALSE,
         status |-> ""]

ConcInit == threads = [t \in Threads |-> Idle]

\* whether thread t can start a call
Free(t) == threads[t].pc \in {"idle", "done"}

\* the add lands in a copy of the set as it was when its name was loaded
set_add_to_snapshot(live, seen, task_id) == seen \cup {task_id}

\* task_ids.add(task_id): the name is loaded, then add is called on the
\* object it names, which is the one shared set whatever it held at the load
set_add(live, seen, task_id) == live \cup {task_id}

\* line 32: the id is drawn
GcDraw(t) ==
    /\ Free(t)
    /\ BagCardinality(returned)
         + Cardinality({u \in Threads : threads[u].op = "generate_code"
                                        /\ threads[u].pc # "done"}) < MaxIssue
    /\ \E n \in randint(RandLo, RandHi) :
        threads' = [threads EXCEPT ![t] =
                        [Idle EXCEPT !.pc = "drawn", !.op = "generate_code",
                                     !.task_id = TaskIdPrefix \o str(n)]]
    /\ UNCHANGED <<toolVars, turnVars>>
    /\ UNCHANGED <<startVars, detVars, obsVars>>

\* line 33: the global name task_ids is loaded
GcLoad(t) ==
    /\ threads[t].pc = "drawn"
    /\ threads' = [threads EXCEPT ![t].pc = "loaded", ![t].seen = task_ids]
    /\ UNCHANGED <<toolVars, turnVars>>
    /\ UNCHANGED <<startVars, detVars, obsVars>>

\* line 33: add is called
GcAdd(t) ==
    /\ threads[t].pc = "loaded"
    /\ task_ids' = set_add(task_ids, threads[t].seen, threads[t].task_id)
    /\ threads' = [threads EXCEPT ![t].pc = "added"]
    /\ UNCHANGED <<ab_task_ids, qa_task_ids, returned, returnedQA, last, pipe>>
    /\ UNCHANGED turnVars
    /\ UNCHANGED <<startVars, detVars, obsVars>>

\* lines 34-50: the details are stamped, the artifact is built and the call
\* returns
GcReturn(t) ==
    /\ threads[t].pc = "added"
    /\ returned' = returned (+) SetToBag({threads[t].task_id})
    /\ threads' = [threads EXCEPT ![t].pc = "done"]
    /\ UNCHANGED <<task_ids, ab_task_ids, qa_task_ids, returnedQA, last, pipe>>
    /\ UNCHANGED turnVars
    /\ UNCHANGED <<startVars, detVars, obsVars>>

\* run_tests(task_id, code) is called; issued records whether a completed
\* generate_code call has returned the id
RtCall(t) ==
    /\ Free(t)
    /\ \E id \in CodingIds \cup {"task_id_0"} :
        threads' = [threads EXCEPT ![t] =
                        [Idle EXCEPT !.pc = "called", !.op = "run_tests", !.task_id = id,
                                     !.issued = BagIn(id, returned)]]
    /\ UNCHANGED <<toolVars, turnVars>>
    /\ UNCHANGED <<startVars, detVars, obsVars>>

\* lines 64-75: the membership test and the return
RtCheck(t) ==
    /\ threads[t].pc = "called"
    /\ LET r == run_tests(task_ids, threads[t].task_id, "pass")
       IN  /\ task_ids' = r.task_ids
           /\ threads' = [threads EXCEPT ![t].pc = "done", ![t].status = r.ret.status]
    /\ UNCHANGED <<ab_task_ids, qa_task_ids, returned, returnedQA, last, pipe>>
    /\ UNCHANGED turnVars
    /\ UNCHANGED <<startVars, detVars, obsVars>>

(***************************************************************************)
(* The entry points: main of coordinator_agent/__main__.py,                *)
(* sde_agent/__main__.py (both copies), qa_agent/__main__.py and           *)
(* agent_builder/builder.py, and the agent nodes they build.               *)
(***************************************************************************)
\* LlmAgent(name=..., tools=..., sub_agents=...); tools and sub_agents
\* default to empty
LlmAgent(name, tools, sub_agents) ==
    [name |-> name, tools |-> tools, sub_agents |-> sub_agents]

SDEAgent_build_agent ==
    LlmAgent(SDE, {"generate_code", "run_tests", "return_solution"}, <<>>)

\* SDEAgent()._build_agent() of implementation/sde_agent/agent.py and
\* QAAgent()._build_agent() of implementation/qa_agent/agent.py, the two
\* children of the Coordinator: leaf nodes with their pipeline's tools
ImplSDEAgent_build_agent ==
    LlmAgent(SDE, {"generate_code", "run_tests", "return_solution"}, <<>>)
QAAgent_build_agent ==
    LlmAgent(QA, {"generate_tests", "run_tests", "return_feedback"}, <<>>)

CoordinatorAgent_build_agent ==
    LlmAgent(COORD, {}, <<ImplSDEAgent_build_agent, QAAgent_build_agent>>)

\* the qa_agent that main of builder.py hands to AgentBuilder: tools=[]
builder_llm_agent == LlmAgent(QA, {}, <<>>)

E_COORD == "coordinator_agent.__main__"
E_SDE == "agents.sde_agent.__main__"
E_SDE_IMPL == "implementation.sde_agent.__main__"
E_QA == "qa_agent.__main__"
E_BUILDER == "agent_builder.builder"
Entries == {E_COORD, E_SDE, E_SDE_IMPL, E_QA, E_BUILDER}

\* the agent node the entry point's turn executor is built around
root_agent(entry) ==
    IF entry = E_COORD THEN CoordinatorAgent_build_agent
    ELSE IF entry = E_SDE THEN SDEAgent_build_agent
    ELSE IF entry = E_SDE_IMPL THEN ImplSDEAgent_build_agent
    ELSE IF entry = E_QA THEN QAAgent_build_agent
    ELSE builder_llm_agent

\* os.getenv("GOOGLE_API_KEY") once load_dotenv() has run: unset, empty, set
KeyInputs == {None, Some(""), Some("key")}

\* entry points that call server.app.add_middleware
HasMiddleware(entry) == entry \in {E_COORD, E_SDE_IMPL, E_QA, E_BUILDER}

NoProc == [entry |-> "", key |-> None, pc |-> "none", node |-> None, server |-> FALSE,
           started |-> FALSE, status |-> None]

NoCall == [called |-> FALSE, raised |-> "", value |-> ""]
NoServed == [query |-> "", forwarded |-> <<>>, child |-> "", items |-> <<>>,
             result |-> NoCall, direct |-> NoCall]

StartInit ==
    /\ proc = NoProc
    /\ served = NoServed

\* python <entry point> in some environment
Launch ==
    /\ proc.pc = "none"
    /\ \E entry \in Entries, key \in KeyInputs :
        proc' = [NoProc EXCEPT !.entry = entry, !.key = key, !.pc = "check"]
    /\ UNCHANGED <<toolVars, turnVars, concVars, detVars, obsVars, served>>

\* the except MissingAPIKeyError clause that does not exit: it logs, and
\* main, or AgentBuilder.__init__, returns
missing_key_handler_logging_only(entry) ==
    IF entry = E_BUILDER THEN [pc |-> "llm", status |-> None]
    ELSE [pc |-> "exited", status |-> Some(0)]

\* except MissingAPIKeyError: logger.error(...); exit(1)
missing_key_handler(entry) == [pc |-> "exited", status |-> Some(1)]

\* if not os.getenv("GOOGLE_API_KEY"): raise MissingAPIKeyError(...)
CheckKey ==
    /\ proc.pc = "check"
    /\ proc' = IF ~Truthy(proc.key)
               THEN [proc EXCEPT !.pc = "missing"]
               ELSE [proc EXCEPT !.pc = IF proc.entry = E_BUILDER THEN "llm" ELSE "card"]
    /\ UNCHANGED <<toolVars, turnVars, concVars, detVars, obsVars, served>>

HandleMissingKey ==
    /\ proc.pc = "missing"
    /\ LET h == missing_key_handler(proc.entry)
       IN  proc' = [proc EXCEPT !.pc = h.pc, !.status = h.status]
    /\ UNCHANGED <<toolVars, turnVars, concVars, detVars, obsVars, served>>

\* builder.py main: llm_agent = LlmAgent(...), set_llm_agent, set_skills
BuildLlmAgent ==
    /\ proc.pc = "llm"
    /\ proc' = [proc EXCEPT !.pc = "card", !.node = Some(builder_llm_agent)]
    /\ UNCHANGED <<toolVars, turnVars, concVars, detVars, obsVars, served>>

\* AgentCard(...)
BuildCard ==
    /\ proc.pc = "card"
    /\ proc' = [proc EXCEPT !.pc = "agent"]
    /\ UNCHANGED <<toolVars, turnVars, concVars, detVars, obsVars, served>>

\* AgentTaskManager(agent=<the turn executor>()): the executor builds its
\* agent node, AgentBuilderTemplate takes the one it is given
BuildAgent ==
    /\ proc.pc = "agent"
    /\ proc' = [proc EXCEPT !.pc = "server",
                            !.node = IF proc.entry = E_BUILDER THEN proc.node
                                     ELSE Some(root_agent(proc.entry))]
    /\ UNCHANGED <<toolVars, turnVars, concVars, detVars, obsVars, served>>

\* A2AServer(...)
BuildServer ==
    /\ proc.pc = "server"
    /\ proc' = [proc EXCEPT !.pc = IF HasMiddleware(proc.entry) THEN "middleware" ELSE "start",
                            !.server = TRUE]
    /\ UNCHANGED <<toolVars, turnVars, concVars, detVars, obsVars, served>>

\* server.app.add_middleware(CORSMiddleware, ...)
AddMiddleware ==
    /\ proc.pc = "middleware"
    /\ proc' = [proc EXCEPT !.pc = "start"]
    /\ UNCHANGED <<toolVars, turnVars, concVars, detVars, obsVars, served>>

\* server.start()
StartServer ==
    /\ proc.pc = "start"
    /\ proc' = [proc EXCEPT !.pc = "serving", !.started = TRUE]
    /\ UNCHANGED <<toolVars, turnVars, concVars, detVars, obsVars, served>>

\* one of the constructors, or server.start(), raises: except Exception
\* logs and exits with 1 (an exception main of builder.py does not catch
\* ends the process with status 1 as well)
StartupFails ==
    /\ proc.pc \in {"llm", "card", "agent", "server", "middleware", "start"}
    /\ proc' = [proc EXCEPT !.pc = "exited", !.status = Some(1)]
    /\ UNCHANGED <<toolVars, turnVars, concVars, detVars, obsVars, served>>

\* the entry points whose turn executor is defined in the files at hand,
\* and the executor, by the name of its agent
ExecutorEntries == {E_COORD, E_SDE, E_BUILDER}
executor(entry) ==
    IF entry = E_COORD THEN COORD
    ELSE IF entry = E_SDE THEN SDE
    ELSE QA

QueryInputs == {"fix the login bug", "write tests\nfor login"}

\* types.Content(role="user", parts=[types.Part.from_text(text=query)])
new_message(query) == [role |-> "user", parts |-> <<TextPart(query)>>]

\* whom the capability can hand the turn of an agent node to: one of its
\* sub_agents, or nobody
Choices(node) == {""} \cup {node.sub_agents[i].name : i \in DOMAIN node.sub_agents}

\* the started server takes a turn and calls invoke of its executor; the
\* capability hands the turn to child, whose events the runner yields
AcceptTurn ==
    /\ proc.pc = "serving"
    /\ proc.entry \in ExecutorEntries
    /\ ~served.result.called
    /\ InvokeBody
    /\ result'.agent = executor(proc.entry)
    /\ ~fault'
    /\ \E query \in QueryInputs, child \in Choices(proc.node[1]) :
        served' = [query |-> query, forwarded |-> new_message(query), child |-> child,
                   items |-> result'.items,
                   result |-> [called |-> TRUE, raised |-> result'.raised,
                               value |-> result'.value],
                   direct |-> NoCall]
    /\ UNCHANGED <<concVars, detVars, obsVars, proc>>

\* invoke of a child of the Coordinator (SDEAgent of
\* implementation/sde_agent/agent.py, QAAgent of
\* implementation/qa_agent/agent.py): the text of the textual parts of the
\* last event, joined by newlines, "" when the capability produced no
\* content
RECURSIVE child_texts(_, _)
child_texts(parts, i) ==
    IF i > Len(parts) THEN <<>>
    ELSE IF parts[i].text = None \/ parts[i].text = Some("") THEN child_texts(parts, i + 1)
    ELSE <<parts[i].text[1]>> \o child_texts(parts, i + 1)

child_invoke(items) ==
    LET final == IF items = <<>> THEN None ELSE items[Len(items)].content
        parts == IF final = None \/ final[1].parts = None THEN <<>> ELSE final[1].parts[1]
    IN  [raised |-> "", value |-> join(child_texts(parts, 1))]

\* invoke of the child's own turn executor is called with the same query
\* and a session id it has not seen, its capability producing the events
\* it produced for the coordinator
DirectTurn ==
    /\ served.child # ""
    /\ ~served.direct.called
    /\ turns < MaxTurns
    /\ \E x \in SessionIds :
        LET a == served.child
            rs == resolve_session(sessions[a], x)
            out == child_invoke(served.items)
        IN  /\ rs.created
            /\ sessions' = [sessions EXCEPT ![a] = runner_append(rs.store, rs.session.id)]
            /\ created' = Bump(created, a, x)
            /\ calls' = Bump(calls, a, x)
            /\ driven' = Bump(driven, a, x)
            /\ result' = [agent |-> a, session_id |-> x, items |-> served.items,
                          called |-> TRUE, raised |-> out.raised, value |-> out.value]
            /\ served' = [served EXCEPT !.direct = [called |-> TRUE, raised |-> out.raised,
                                                     value |-> out.value]]
    /\ turns' = turns + 1
    /\ stream' = NoStream
    /\ emitted' = <<>>
    /\ fault' = FALSE
    /\ UNCHANGED <<turnIds, abandoned>>
    /\ UNCHANGED <<toolVars, concVars, detVars, obsVars, proc>>

(***************************************************************************)
(* Two runs of one turn of the SDE agent, each on a session id the agent   *)
(* has not seen, with the same query and the same capability: a script     *)
(* that fixes what the capability asks for and answers given the results   *)
(* of the tools it called.                                                 *)
(***************************************************************************)
\* the capability answers with a fixed text; calls generate_code and ends
\* with the tool's response; calls generate_code and reports the id
DetScripts == {"text", "generate", "report"}

FunctionResponsePart(name, response) ==
    [text |-> None,
     function_response |-> Some([id |-> None, name |-> name, response |-> response])]

\* the events of a turn run on script, ret being what generate_code
\* returned to it
capability_events(script, ret) ==
    IF script = "text"
    THEN <<Progress, [final |-> TRUE, content |-> Content(<<TextPart("a")>>)]>>
    ELSE IF script = "generate"
    THEN <<Progress,
           [final |-> TRUE,
            content |-> Content(<<FunctionResponsePart("generate_code", ret)>>)]>>
    ELSE <<Progress,
           [final |-> TRUE,
            content |-> Content(<<TextPart("Generated " \o ret.task_id)>>)]>>

\* a stream call consumed to its end: what it yields over the events, and
\* the fault that ends it, if any
RECURSIVE stream_run(_, _)
stream_run(agent, items) ==
    IF items = <<>> THEN [raised |-> "", out |-> <<>>]
    ELSE LET y == stream_yield(agent, Head(items))
         IN  IF y.raised # "" THEN [raised |-> y.raised, out |-> y.out]
             ELSE LET r == stream_run(agent, Tail(items))
                  IN  [raised |-> r.raised, out |-> y.out \o r.out]

NoDet == [script |-> "", details |-> EmptyDict, form |-> "", runs |-> <<>>]

DetInit == det = NoDet

\* one run: SDEAgent.invoke, or SDEAgent.stream consumed to its end.  invoke
\* never iterates the runner, so its capability and tools never run.
DetRun ==
    /\ Len(det.runs) < 2
    /\ turns < MaxTurns
    /\ stream.pc # "streaming"
    /\ \E script \in DetScripts, d \in TaskDetailsInputs, form \in {"invoke", "stream"},
          x \in SessionIds, n \in randint(RandLo, RandHi) :
        LET tool == form = "stream" /\ script # "text"
            g == generate_code(task_ids, d, n)
            rs == resolve_session(sessions[SDE], x)
            out == IF form = "stream"
                   THEN stream_run(SDE, capability_events(script, IF tool THEN g.ret
                                                                  ELSE EmptyDict))
                   ELSE [raised |-> invoke(SDE, <<>>).raised, out |-> <<>>]
        IN  /\ det.runs # <<>> => (script = det.script /\ d = det.details /\ form = det.form)
            /\ script = "text" => d = EmptyDict
            /\ rs.created
            /\ det' = [script |-> script, details |-> d, form |-> form,
                       runs |-> Append(det.runs,
                                       [session_id |-> x, draw |-> IF tool THEN n ELSE 0,
                                        raised |-> out.raised, out |-> out.out])]
            /\ sessions' = [sessions EXCEPT ![SDE] =
                                IF form = "stream" THEN runner_append(rs.store, rs.session.id)
                                ELSE rs.store]
            /\ created' = Bump(created, SDE, x)
            /\ calls' = Bump(calls, SDE, x)
            /\ driven' = IF form = "stream" THEN Bump(driven, SDE, x) ELSE driven
            /\ stream' = IF form = "stream"
                         THEN [agent |-> SDE, session_id |-> x,
                               pc |-> IF out.raised = "" THEN "ended" ELSE "raised"]
                         ELSE NoStream
            /\ emitted' = out.out
            /\ result' = IF form = "stream" THEN NoResult
                         ELSE [agent |-> SDE, session_id |-> x, items |-> <<>>,
                               called |-> TRUE, raised |-> out.raised, value |-> ""]
            /\ turnIds' = IF tool THEN {g.ret.task_id} ELSE {}
            /\ task_ids' = IF tool THEN g.task_ids ELSE task_ids
            /\ returned' = IF tool THEN returned (+) SetToBag({g.ret.task_id}) ELSE returned
            /\ last' = IF tool
                       THEN [op |-> "generate_code", args |-> [task_details |-> d],
                             ret |-> g.ret, after |-> [task_details |-> g.task_details]]
                       ELSE last
            /\ pipe' = IF tool
                       THEN [stage |-> 1, details |-> g.task_details, r |-> g.ret,
                             outcome |-> EmptyDict, solution |-> EmptyDict]
                       ELSE pipe
    /\ turns' = turns + 1
    /\ fault' = FALSE
    /\ UNCHANGED <<ab_task_ids, qa_task_ids, returnedQA, abandoned>>
    /\ UNCHANGED <<concVars, startVars, obsVars>>

(***************************************************************************)
(* One final response given to both executors of one agent: an invoke call *)
(* whose runner produced the event as its last and only one, and a stream  *)
(* call whose runner produced the same event.                              *)
(***************************************************************************)
NoAgree == [agent |-> "", event |-> None,
            invoke |-> [called |-> FALSE, raised |-> "", value |-> ""],
            stream |-> [called |-> FALSE, raised |-> "", out |-> <<>>]]

AgreeInit == agree = NoAgree

\* agent.invoke(query, session_id), the runner producing one event
AgreeInvoke ==
    /\ ~agree.invoke.called
    /\ InvokeBody
    /\ ~fault'
    /\ Len(result'.items) = 1
    /\ agree.event # None =>
        (result'.agent = agree.agent /\ result'.items[1] = agree.event[1])
    /\ agree' = [agree EXCEPT !.agent = result'.agent,
                              !.event = Some(result'.items[1]),
                              !.invoke = [called |-> TRUE, raised |-> result'.raised,
                                          value |-> result'.value]]
    /\ UNCHANGED <<concVars, startVars, detVars, step>>

\* agent.stream(query, session_id) consumed to its end, the runner producing
\* one event, a final response
AgreeStream ==
    /\ ~agree.stream.called
    /\ stream.pc # "streaming"
    /\ turns < MaxTurns
    /\ \E a \in Agents, x \in SessionIds, e \in InvokeEventInputs :
        LET rs == resolve_session(sessions[a], x)
            out == stream_run(a, <<e>>)
        IN  /\ agree.event # None => (a = agree.agent /\ e = agree.event[1])
            /\ sessions' = [sessions EXCEPT ![a] = runner_append(rs.store, rs.session.id)]
            /\ created' = IF rs.created THEN Bump(created, a, x) ELSE created
            /\ calls' = Bump(calls, a, x)
            /\ driven' = Bump(driven, a, x)
            /\ stream' = [agent |-> a, session_id |-> x,
                          pc |-> IF out.raised = "" THEN "ended" ELSE "raised"]
            /\ emitted' = out.out
            /\ agree' = [agree EXCEPT !.agent = a, !.event = Some(e),
                                      !.stream = [called |-> TRUE, raised |-> out.raised,
                                                  out |-> out.out]]
    /\ turns' = turns + 1
    /\ result' = NoResult
    /\ fault' = FALSE
    /\ turnIds' = {}
    /\ UNCHANGED abandoned
    /\ UNCHANGED toolVars
    /\ UNCHANGED <<concVars, startVars, detVars, step>>

(***************************************************************************)
(* A turn taken statement by statement: get_session, create_session under  *)
(* "if session is None", the run of the Runner, and the handling of its    *)
(* events.  Nothing is awaited between get_session and the run, so no      *)
(* other turn of the agent runs in between.                                *)
(***************************************************************************)
NoStep == [pc |-> "idle", form |-> "", agent |-> "", session_id |-> "", session |-> None]

StepInit == step = NoStep

\* session = self._runner.session_service.get_session(...)
TurnLookup ==
    /\ step.pc \in {"idle", "done"}
    /\ stream.pc # "streaming"
    /\ turns < MaxTurns
    /\ \E form \in {"invoke", "stream"}, a \in Agents, x \in SessionIds :
        /\ step' = [pc |-> "looked", form |-> form, agent |-> a, session_id |-> x,
                    session |-> get_session(sessions[a], x)]
        /\ calls' = Bump(calls, a, x)
    /\ turns' = turns + 1
    /\ stream' = NoStream
    /\ emitted' = <<>>
    /\ result' = NoResult
    /\ fault' = FALSE
    /\ turnIds' = {}
    /\ UNCHANGED <<sessions, created, driven, abandoned>>
    /\ UNCHANGED toolVars
    /\ UNCHANGED <<concVars, startVars, detVars, agree>>

\* if session is None: session = ...create_session(state={}, session_id=...)
TurnCreate ==
    /\ step.pc = "looked"
    /\ step.session = None
    /\ LET c == create_session(sessions[step.agent], EmptyDict, step.session_id)
       IN  /\ sessions' = [sessions EXCEPT ![step.agent] = c.store]
           /\ step' = [step EXCEPT !.pc = "ready", !.session = Some(c.session)]
    /\ created' = Bump(created, step.agent, step.session_id)
    /\ UNCHANGED <<calls, driven, turns, stream, emitted, result, fault, turnIds, abandoned>>
    /\ UNCHANGED toolVars
    /\ UNCHANGED <<concVars, startVars, detVars, agree>>

\* self._runner.run(...) / run_async(..., session_id=session.id, ...): the
\* Runner is started on the id of the session the handler holds.  The
\* generator SDEAgent.invoke gets is never iterated.
TurnDispatch ==
    /\ step.pc \in {"looked", "ready"}
    /\ step.session # None
    /\ LET driving == step.form = "stream" \/ invoke_drives(step.agent)
       IN  /\ sessions' = [sessions EXCEPT ![step.agent] =
                               IF driving THEN runner_append(@, step.session[1].id) ELSE @]
           /\ driven' = IF driving THEN Bump(driven, step.agent, step.session[1].id)
                        ELSE driven
    /\ step' = [step EXCEPT !.pc = "running"]
    /\ stream' = IF step.form = "stream"
                 THEN [agent |-> step.agent, session_id |-> step.session_id,
                       pc |-> "streaming"]
                 ELSE stream
    /\ UNCHANGED <<created, calls, turns, emitted, result, fault, turnIds, abandoned>>
    /\ UNCHANGED toolVars
    /\ UNCHANGED <<concVars, startVars, detVars, agree>>

\* the events of the run are handled: invoke returns (or raises), stream
\* yields over the one event and ends
TurnRespond ==
    /\ step.pc = "running"
    /\ \E e \in InvokeEventInputs :
        IF step.form = "invoke"
        THEN LET out == invoke(step.agent, <<e>>)
             IN  /\ result' = [agent |-> step.agent, session_id |-> step.session_id,
                               items |-> <<e>>, called |-> TRUE,
                               raised |-> out.raised, value |-> out.value]
                 /\ UNCHANGED <<stream, emitted>>
        ELSE LET out == stream_run(step.agent, <<e>>)
             IN  /\ emitted' = out.out
                 /\ stream' = [stream EXCEPT !.pc = IF out.raised = "" THEN "ended"
                                                    ELSE "raised"]
                 /\ UNCHANGED result
    /\ step' = [step EXCEPT !.pc = "done"]
    /\ UNCHANGED <<sessions, created, calls, driven, turns, fault, turnIds, abandoned>>
    /\ UNCHANGED toolVars
    /\ UNCHANGED <<concVars, startVars, detVars, agree>>

vars == <<toolVars, turnVars, auxVars>>

Init ==
    ToolInit /\ TurnInit /\ ConcInit /\ StartInit /\ DetInit /\ AgreeInit /\ StepInit

Next ==
    \/ GenerateCode
    \/ RunTests
    \/ ReturnSolution
    \/ GenerateTests
    \/ ModuleRunTests
    \/ ReturnFeedback
    \/ AbReturnSolution

Spec == Init /\ [][Next]_vars

NextTurn ==
    \/ Invoke
    \/ StreamStart
    \/ StreamEvent
    \/ StreamFail
    \/ StreamEnd

SpecTurn == Init /\ [][NextTurn]_vars

\* a stream call of the SDE agent is started
SdeStreamStart ==
    /\ StreamStart
    /\ stream'.agent = SDE

\* run_tests is called on an id issued during a stream call that was
\* abandoned
RunTestsAfterAbandon ==
    /\ RunTests
    /\ last'.args.task_id \in abandoned.ids

\* a stream call yields a progress notice
StreamProgress ==
    /\ StreamEvent
    /\ Len(emitted') > Len(emitted)
    /\ ~emitted'[Len(emitted')].is_task_complete

NextCancel ==
    \/ SdeStreamStart
    \/ StreamProgress
    \/ StreamGenerate
    \/ StreamAbandon
    \/ StreamEnd
    \/ RunTestsAfterAbandon

SpecCancel == Init /\ [][NextCancel]_vars

NextConc ==
    \E t \in Threads :
        \/ GcDraw(t)
        \/ GcLoad(t)
        \/ GcAdd(t)
        \/ GcReturn(t)
        \/ RtCall(t)
        \/ RtCheck(t)

SpecConc == Init /\ [][NextConc]_vars

NextStart ==
    \/ Launch
    \/ CheckKey
    \/ HandleMissingKey
    \/ BuildLlmAgent
    \/ BuildCard
    \/ BuildAgent
    \/ BuildServer
    \/ AddMiddleware
    \/ StartServer
    \/ StartupFails
    \/ AcceptTurn
    \/ DirectTurn

SpecStart == Init /\ [][NextStart]_vars

NextDet == DetRun

NextAgree ==
    \/ AgreeInvoke
    \/ AgreeStream

SpecAgree == Init /\ [][NextAgree]_vars

(***************************************************************************)
(* Tool calls of both modules and invoke calls in one run.  The details    *)
(* the tools are given are the empty ones: no tool reads a registry        *)
(* through them.                                                           *)
(***************************************************************************)
FrameGenerateCode ==
    /\ GenerateCode
    /\ last'.args.task_details = EmptyDict

FrameRunTests ==
    /\ RunTests
    /\ last'.args.code = "pass"

FrameReturnSolution ==
    /\ ReturnSolution
    /\ last'.args.task_details = EmptyDict

FrameGenerateTests ==
    /\ GenerateTests
    /\ last'.args.qa_details = EmptyDict

FrameReturnFeedback ==
    /\ ReturnFeedback
    /\ last'.args.qa_details = EmptyDict

FrameAbReturnSolution ==
    /\ AbReturnSolution
    /\ last'.args.task_details = EmptyDict

\* invoke calls of one agent on session "s1" whose runner produces no
\* event: the first creates the session, the later ones find it
FrameInvoke ==
    /\ Invoke
    /\ result'.session_id = "s1"
    /\ result'.items = <<>>
    /\ ~fault'
    /\ result.called => result'.agent = result.agent

NextFrame ==
    \/ FrameGenerateCode
    \/ FrameRunTests
    \/ FrameReturnSolution
    \/ FrameGenerateTests
    \/ ModuleRunTests
    \/ FrameReturnFeedback
    \/ FrameAbReturnSolution
    \/ FrameInvoke

SpecFrame == Init /\ [][NextFrame]_vars

NextSteps ==
    \/ TurnLookup
    \/ TurnCreate
    \/ TurnDispatch
    \/ TurnRespond

SpecSteps == Init /\ [][NextSteps]_vars

SpecDet == Init /\ [][NextDet]_vars

(***************************************************************************)
(* Claims about the identifier registries and the tool pipeline.           *)
(***************************************************************************)
IsTaskIdForm(id) ==
    /\ Len(id) = Len(TaskIdPrefix) + 7
    /\ SubSeq(id, 1, Len(TaskIdPrefix)) = TaskIdPrefix
    /\ \A i \in (Len(TaskIdPrefix) + 1) .. Len(id) :
        \E k \in DOMAIN Digits : SubSeq(id, i, i) = Digits[k]

FinalizeOps == {"return_solution", "return_feedback", "agent_builder.return_solution"}

\* C1: the ids generate_code returned during a run are pairwise distinct,
\* and so are the ids generate_tests returned.
C1_PairwiseDistinct ==
    /\ \A id \in BagToSet(returned) : CopiesIn(id, returned) = 1
    /\ \A id \in BagToSet(returnedQA) : CopiesIn(id, returnedQA) = 1

\* C2: in every state, run_tests answers "All tests passed." for every id
\* some generate_code call has returned, whatever the code, and the
\* invalid-identifier status for every other id; every run_tests call that
\* was made answered so.
C2_ValidityGate ==
    /\ \A id \in IdInputs, code \in CodeInputs :
        run_tests(task_ids, id, code).ret.status =
            IF BagIn(id, returned) THEN AllTestsPassed ELSE InvalidTaskId
    /\ last.op = "run_tests" =>
        last.ret.status =
            IF BagIn(last.args.task_id, returned) THEN AllTestsPassed ELSE InvalidTaskId

C2_Witness ==
    /\ last.op = "run_tests"
    /\ BagIn(last.args.task_id, returned)
    /\ last.ret.status = AllTestsPassed

\* C4: an id issued by generate_code is rejected by the QA run step, and by
\* what agent_builder exports as run_tests, exactly as an id that was never
\* issued is; an id issued by generate_tests is rejected likewise by the
\* coding-task run step.
C4_NamespaceIsolation ==
    /\ \A id \in BagToSet(returned) :
        /\ qa_run_tests(qa_task_ids, id, "pass").ret =
               [qa_task_id |-> id, status |-> InvalidQaTaskId]
        /\ qa_run_tests(qa_task_ids, id, "pass").ret.status =
               qa_run_tests(qa_task_ids, "task_id_0", "pass").ret.status
        /\ module_run_tests(ab_task_ids, qa_task_ids, id, "pass").ret.status = InvalidTaskId
    /\ \A id \in BagToSet(returnedQA) :
        /\ run_tests(task_ids, id, "pass").ret = [task_id |-> id, status |-> InvalidTaskId]
        /\ run_tests(task_ids, id, "pass").ret.status =
               run_tests(task_ids, "task_id_0", "pass").ret.status
    /\ (last.op = "run_tests" /\ BagIn(last.args.task_id, returnedQA)) =>
        last.ret.status = InvalidTaskId

C4_Witness ==
    /\ last.op = "run_tests"
    /\ BagIn(last.args.task_id, returnedQA)
    /\ last.ret.status = InvalidTaskId
    /\ task_ids # {}

\* C5: calling agent_builder's run_tests with an id that generate_tests
\* returned answers "All tests passed.".
C5_QaGate ==
    (last.op = "agent_builder.run_tests" /\ BagIn(last.args.task_id, returnedQA)) =>
        last.ret.status = AllTestsPassed

\* C6: a run_tests call with an id that was never issued returns the record
\* of that id with the invalid-identifier status and leaves task_ids and
\* qa_task_ids as they were.
C6_InvalidIdStep ==
    /\ (last'.op = "run_tests" /\ ~BagIn(last'.args.task_id, returned)) =>
        /\ last'.ret = [task_id |-> last'.args.task_id, status |-> InvalidTaskId]
        /\ UNCHANGED <<task_ids, ab_task_ids, qa_task_ids>>
    /\ last'.op = "agent_builder.run_tests" =>
        /\ last'.ret = [task_id |-> last'.args.task_id, status |-> InvalidTaskId]
        /\ UNCHANGED <<task_ids, ab_task_ids, qa_task_ids>>
    /\ UNCHANGED turnVars
    /\ UNCHANGED auxVars

C6_InvalidReference == [][C6_InvalidIdStep]_vars

C6_Witness ==
    /\ last.op = "run_tests"
    /\ last.args.task_id = "task_id_9999999"
    /\ ~BagIn("task_id_9999999", returned)
    /\ last.ret.status = InvalidTaskId
    /\ task_ids # {}

\* C9: along a chain generate_code -> run_tests -> return_solution, the id
\* has the form task_id_<7 digits>, is registered and is the one stamped
\* into the returned details; the run on that id and code passes; and the
\* solution carries exactly that id, that code and that status.
C9_Pipeline ==
    /\ pipe.stage >= 1 =>
        /\ IsTaskIdForm(pipe.r.task_id)
        /\ pipe.r.task_id \in task_ids
        /\ pipe.r.task_id = pipe.r.task_details["task_id"]
    /\ pipe.stage >= 2 =>
        pipe.outcome = [task_id |-> pipe.r.task_id, status |-> AllTestsPassed]
    /\ pipe.stage = 3 =>
        /\ pipe.solution.task_id = pipe.r.task_id
        /\ pipe.solution.code = pipe.r.code
        /\ pipe.solution.test_status = AllTestsPassed

C9_Witness == pipe.stage = 3 /\ last.op = "return_solution"

\* C10: a finalize call returns what the same call returns in every other
\* registry state, leaves the records it was given as they were, and leaves
\* the registries unchanged.
C10_SameInAnyRegistry ==
    /\ last.op = "return_solution" =>
        \A ids \in SUBSET (CodingIds \cup {"task_id_0"}) :
            return_solution(ids, last.args.task_details, last.args.code_info,
                            last.args.test_results).ret = last.ret
    /\ last.op = "agent_builder.return_solution" =>
        \A ids \in SUBSET (CodingIds \cup {"task_id_0"}) :
            ab_return_solution(ids, last.args.task_details, last.args.code_info,
                               last.args.test_results).ret = last.ret
    /\ last.op = "return_feedback" =>
        \A ids \in SUBSET CodingIds, qids \in SUBSET QaIds :
            return_feedback(ids, qids, last.args.qa_details, last.args.tests_info,
                            last.args.feedback_instructions).ret = last.ret
    /\ last.op \in FinalizeOps => last.after = last.args

C10_FinalizeStep ==
    last'.op \in FinalizeOps => UNCHANGED <<task_ids, ab_task_ids, qa_task_ids>>

C10_FinalizePure == []C10_SameInAnyRegistry /\ [][C10_FinalizeStep]_vars

C10_Witness ==
    /\ last.op = "return_solution"
    /\ last.args.code_info = pipe.r
    /\ pipe.stage = 3
    /\ BagCardinality(returned) >= 2

SolutionOps == {"return_solution", "agent_builder.return_solution"}

\* what d.get(k, "") is to return: the value under k, "" without one
Present(d, k) == IF k \in DOMAIN d THEN d[k] ELSE ""

\* C11: whichever of the keys task_id, code (of code_info) and status (of
\* test_results) are present, return_solution returns a record of exactly
\* the fields task_id, code, test_status and task_details, each the value
\* given under its key, or "" when the key is absent, and task_details the
\* details given.
C11_TotalPassThrough ==
    last.op \in SolutionOps =>
        /\ DOMAIN last.ret = {"task_id", "code", "test_status", "task_details"}
        /\ last.ret.task_id = Present(last.args.code_info, "task_id")
        /\ last.ret.code = Present(last.args.code_info, "code")
        /\ last.ret.test_status = Present(last.args.test_results, "status")
        /\ last.ret.task_details = last.args.task_details

C11_Witness ==
    /\ last.op = "return_solution"
    /\ DOMAIN last.args.code_info = {"code"}
    /\ DOMAIN last.args.test_results = {}
    /\ last.ret.task_id = ""
    /\ last.ret.code = "pass"
    /\ last.ret.test_status = ""

\* the keys the docstrings of generate_code and generate_tests name, with
\* the line of the artifact each is shown on
CodeKeys ==
    [language |-> "# Language: ", requirements |-> "# Requirements: ",
     constraints |-> "# Constraints: "]
TestKeys ==
    [feature |-> "# Feature: ", test_requirements |-> "# Test Requirements: ",
     constraints |-> "# Constraints: "]

Contains(s, t) ==
    \E i \in 1 .. (Len(s) - Len(t) + 1) : SubSeq(s, i, i + Len(t) - 1) = t

\* the result of a generate call: an id, an artifact and the details
IsGenerateResult(ret, idKey, artifactKey, detailsKey) ==
    /\ DOMAIN ret = {idKey, artifactKey, detailsKey}
    /\ ret[idKey] # ""
    /\ ret[detailsKey][idKey] = ret[idKey]

C3_StreamingShape ==
    /\ \A i \in 1 .. (Len(emitted) - 1) : ~emitted[i].is_task_complete
    /\ stream.pc = "ended" =>
        /\ Len(emitted) >= 1
        /\ emitted[Len(emitted)].is_task_complete

\* C7: create_session is called at most once per agent and session id; once
\* a turn was called with a session id the agent holds the session created
\* for the first such call, with its empty state and with every message the
\* Runner appended since.
C7_SessionIdempotence ==
    \A a \in Agents, x \in SessionIds :
        /\ created[a][x] <= 1
        /\ (x \in DOMAIN sessions[a]) <=> (created[a][x] = 1)
        /\ calls[a][x] >= 1 =>
            /\ x \in DOMAIN sessions[a]
            /\ sessions[a][x].id = x
            /\ sessions[a][x].state = EmptyDict
            /\ sessions[a][x].messages = driven[a][x]

C7_Witness ==
    \E a \in Agents, x \in SessionIds :
        /\ calls[a][x] >= 2
        /\ created[a][x] = 1
        /\ sessions[a][x].messages >= 2

\* the text the final response carries: the newline-joined text of the
\* textual parts of the last event, "" without events, content or parts
FinalText(items) ==
    IF items = <<>> THEN ""
    ELSE LET content == items[Len(items)].content
         IN  IF content = None THEN ""
             ELSE IF content[1].parts = None THEN ""
             ELSE join(texts(content[1].parts[1]))

\* C8: every invoke call, of each agent, whose capability runs to its end
\* returns the newline-joined text of the final response, and "" when there
\* is none, without raising.
C8_InvokeText ==
    (result.called /\ ~fault) =>
        (result.raised = "" /\ result.value = FinalText(result.items))

\* C13: when the capability raises while a turn is driven, invoke returns a
\* value without raising, and stream is not left by an exception but ends
\* after a terminal event.
C13_FailureContained ==
    fault =>
        /\ result.called => result.raised = ""
        /\ ~result.called =>
            /\ stream.pc # "raised"
            /\ stream.pc = "ended" =>
                /\ Len(emitted) >= 1
                /\ emitted[Len(emitted)].is_task_complete

\* C14: once a stream call was abandoned before its terminal event, every id
\* generate_code issued during it is in task_ids and passes run_tests, in
\* every later state, and the session of the call is in the store, created
\* once, whatever turns followed.
C14_NoRollback ==
    /\ \A id \in abandoned.ids :
        /\ id \in task_ids
        /\ run_tests(task_ids, id, "pass").ret.status = AllTestsPassed
    /\ (last.op = "run_tests" /\ last.args.task_id \in abandoned.ids) =>
        last.ret.status = AllTestsPassed
    /\ \A p \in abandoned.sessions :
        /\ p[2] \in DOMAIN sessions[p[1]]
        /\ sessions[p[1]][p[2]].id = p[2]
        /\ created[p[1]][p[2]] = 1
        /\ sessions[p[1]][p[2]].messages = calls[p[1]][p[2]]

\* a stream call was abandoned after generate_code issued an id, the next
\* turn was started on the same session id, and run_tests was called on
\* the id
C14_Witness ==
    /\ abandoned.ids # {}
    /\ stream.pc = "streaming"
    /\ <<stream.agent, stream.session_id>> \in abandoned.sessions
    /\ calls[stream.agent][stream.session_id] = 2
    /\ last.op = "run_tests"
    /\ last.args.task_id \in abandoned.ids
    /\ last.ret.status = AllTestsPassed

\* C15: however the steps of generate_code and run_tests calls of several
\* threads interleave, every id a completed generate_code call returned is
\* in task_ids, an id once added stays in it, and a run_tests call made
\* on an id that a completed generate_code call had returned does not
\* report it invalid.
C15_ConcurrentRegistry ==
    /\ \A id \in BagToSet(returned) : id \in task_ids
    /\ \A t \in Threads :
        /\ (threads[t].op = "generate_code" /\ threads[t].pc \in {"added", "done"}) =>
            threads[t].task_id \in task_ids
        /\ (threads[t].op = "run_tests" /\ threads[t].pc = "done" /\ threads[t].issued) =>
            threads[t].status = AllTestsPassed

\* two generate_code calls have returned, the set having changed under one
\* of them after it loaded the name, and a run_tests call of another thread
\* on an id returned before it was made has passed
C15_Witness ==
    \E t, u \in Threads :
        /\ t # u
        /\ threads[t].op = "run_tests" /\ threads[t].pc = "done" /\ threads[t].issued
        /\ threads[t].status = AllTestsPassed
        /\ threads[u].op = "generate_code" /\ threads[u].pc = "done"
        /\ threads[u].seen # task_ids \ {threads[u].task_id}
        /\ BagCardinality(returned) = 2

(***************************************************************************)
(* Claims about startup and the agent nodes.                               *)
(***************************************************************************)
\* C16: in a process started without GOOGLE_API_KEY (unset, or empty, which
\* the check treats alike), whatever the entry point, nothing beyond the
\* check and its handler runs: no agent and no server is built, none is
\* started, no turn is accepted, and the process exits with status 1.
C16_StartupContract ==
    (proc.pc # "none" /\ ~Truthy(proc.key)) =>
        /\ proc.pc \in {"check", "missing", "exited"}
        /\ proc.node = None
        /\ ~proc.server
        /\ ~proc.started
        /\ turns = 0
        /\ served = NoServed
        /\ proc.pc = "exited" => proc.status = Some(1)
        /\ proc.pc # "exited" => proc.status = None

C16_Witness ==
    /\ proc.entry = E_BUILDER
    /\ proc.key = None
    /\ proc.pc = "exited"
    /\ proc.status = Some(1)

\* the nodes of the tree under node, itself included
Nodes(node) == {node} \cup {node.sub_agents[i] : i \in DOMAIN node.sub_agents}

IsCoordinatorNode(node) == node.tools = {} /\ Len(node.sub_agents) >= 1
IsLeafNode(node) == node.tools # {} /\ Len(node.sub_agents) = 0

\* C17: every agent node an entry point has built is a coordinator (no
\* tools, at least one child) or a leaf (tools, no child).
C17_NodeShape ==
    proc.node # None =>
        \A node \in Nodes(proc.node[1]) : IsCoordinatorNode(node) \/ IsLeafNode(node)

Outcome(run) == [raised |-> run.raised, out |-> run.out]

Accepted(ret, id) == ret.task_id = id /\ ret.test_status # InvalidTaskId

\* C22: a finalize call (return_solution of either module) accepts the id
\* in code_info if and only if a generate call issued it and it is in the
\* registry of the module; a guessed id is not accepted.
C22_FinalizeGate ==
    /\ (last.op = "return_solution" /\ "task_id" \in DOMAIN last.args.code_info) =>
        (Accepted(last.ret, last.args.code_info.task_id)
            <=> (/\ BagIn(last.args.code_info.task_id, returned)
                 /\ last.args.code_info.task_id \in task_ids))
    /\ (last.op = "agent_builder.return_solution"
        /\ "task_id" \in DOMAIN last.args.code_info) =>
        (Accepted(last.ret, last.args.code_info.task_id)
            <=> last.args.code_info.task_id \in ab_task_ids)

\* C25: after a generate call returns, the details record the caller passed
\* is as it was before the call, and the issued id appears in the details
\* of the returned record only.
C25_PassedByValue ==
    /\ last.op = "generate_code" =>
        /\ last.after.task_details = last.args.task_details
        /\ last.ret.task_details.task_id = last.ret.task_id
    /\ last.op = "generate_tests" =>
        /\ last.after.qa_details = last.args.qa_details
        /\ last.ret.qa_details.qa_task_id = last.ret.qa_task_id


(***************************************************************************)
(* Claims about the final response of a turn.                              *)
(***************************************************************************)
\* the parts of an event's content, none without content or parts
PartsOf(event) ==
    IF event.content = None THEN <<>>
    ELSE IF event.content[1].parts = None THEN <<>>
    ELSE event.content[1].parts[1]

CarriesText(event) == texts(PartsOf(event)) # <<>>

CarriesResponse(event) ==
    \E i \in DOMAIN PartsOf(event) : PartsOf(event)[i].function_response # None

\* the function response an event carries: that of its first part having one
FirstResponse(event) ==
    LET i == CHOOSE i \in DOMAIN PartsOf(event) :
                /\ PartsOf(event)[i].function_response # None
                /\ \A j \in 1 .. (i - 1) : PartsOf(event)[j].function_response = None
    IN  PartsOf(event)[i].function_response[1]

\* the content the terminal event is to have
TerminalContent(event) ==
    IF CarriesText(event) THEN PyStr(join(texts(PartsOf(event))))
    ELSE IF CarriesResponse(event) THEN PyDict(model_dump(FirstResponse(event)))
    ELSE PyStr("")

\* C21: a stream call given a final response yields, without raising, one
\* terminal event whose content is the structured function response when the
\* event carries one and no text, the newline-joined text when it carries
\* text, and "" when it carries neither.
C21_TerminalContent ==
    agree.stream.called =>
        /\ agree.stream.raised = ""
        /\ Len(agree.stream.out) = 1
        /\ agree.stream.out[1].is_task_complete
        /\ agree.stream.out[1].content = TerminalContent(agree.event[1])

\* a final response whose parts are textual parts and parts without text
\* or function response
TextualOnly(event) == ~CarriesResponse(event)

\* C27: when invoke returns a text for a turn that ends in a final response
\* made of text and non-text parts, a stream call given the same final
\* response yields a terminal event with that text as its content, wherever
\* among the parts the first text is.
C27_InvokeStreamAgree ==
    (/\ agree.invoke.called
     /\ agree.stream.called
     /\ agree.invoke.raised = ""
     /\ TextualOnly(agree.event[1])) =>
        /\ agree.stream.raised = ""
        /\ Len(agree.stream.out) = 1
        /\ agree.stream.out[1].content = PyStr(agree.invoke.value)


(***************************************************************************)
(* Claims about the order of the steps of a turn and about the sessions.   *)
(***************************************************************************)
\* the Runner runs, or has run, only on sessions the agent's store holds
C24_RunsOnStoredSession ==
    /\ step.pc = "running" =>
        /\ step.session # None
        /\ step.session[1].id = step.session_id
        /\ step.session_id \in DOMAIN sessions[step.agent]
    /\ \A a \in Agents, x \in SessionIds :
        driven[a][x] >= 1 => x \in DOMAIN sessions[a]

\* a session is created only right after a lookup that found none, for an id
\* the store does not hold; the Runner is started only on an id the store
\* holds, after the lookup and the creation it called for
C24_Step ==
    /\ created' # created =>
        /\ step.pc = "looked"
        /\ step.session = None
        /\ step.session_id \notin DOMAIN sessions[step.agent]
        /\ driven' = driven
    /\ driven' # driven =>
        /\ step.pc \in {"looked", "ready"}
        /\ step.pc = "looked" => created[step.agent][step.session_id] >= 1
        /\ step.session_id \in DOMAIN sessions[step.agent]
        /\ created' = created

\* C24: in every turn the session is looked up first, created only if the
\* lookup found none, and the capability is driven only once the agent's
\* store holds a session with the id; it never runs for an id the store
\* lacks.
C24_TurnOrdering == []C24_RunsOnStoredSession /\ [][C24_Step]_vars

\* the Runner runs in a second turn on a session id, whose lookup found the
\* session the first turn created
C24_Witness ==
    /\ step.pc = "running"
    /\ calls[step.agent][step.session_id] = 2
    /\ created[step.agent][step.session_id] = 1
    /\ driven[step.agent][step.session_id] = 2


\* at most one session per agent and session id, and each agent's session
\* under an id reflects the turns of that agent alone
C23_OneSessionPerKey ==
    \A a \in Agents, x \in SessionIds :
        /\ created[a][x] <= 1
        /\ x \in DOMAIN sessions[a] =>
            /\ sessions[a][x].id = x
            /\ created[a][x] = 1
            /\ calls[a][x] >= 1
            /\ sessions[a][x].messages = driven[a][x]

\* a step creates or changes sessions of the agent whose turn it is only
C23_Step ==
    \A b \in Agents :
        (sessions'[b] # sessions[b] \/ created'[b] # created[b]) =>
            /\ calls'[b] # calls[b]
            /\ \A a \in Agents \ {b} :
                /\ calls'[a] = calls[a]
                /\ sessions'[a] = sessions[a]
                /\ created'[a] = created[a]

\* C23: an agent name and a session id identify at most one session; one
\* session id used at two agents denotes two independent sessions, and a
\* turn at one agent creates or changes no session of another agent.
C23_SessionIdentity == []C23_OneSessionPerKey /\ [][C23_Step]_vars

\* two agents each took a turn with the same session id
C23_Witness ==
    \E a \in Agents, b \in Agents, x \in SessionIds :
        /\ a # b
        /\ calls[a][x] = 1
        /\ calls[b][x] = 1
        /\ x \in DOMAIN sessions[a]
        /\ x \in DOMAIN sessions[b]
        /\ created[a][x] = 1
        /\ created[b][x] = 1


(***************************************************************************)
(* Claims about the frame of the registries.                               *)
(***************************************************************************)
Registries == <<task_ids, ab_task_ids, qa_task_ids>>

\* C26: every step leaves each registry a superset of what it was; a
\* generate_code call adds at most one element, the id it returns, to
\* task_ids of its module and leaves the other registries unchanged; a
\* generate_tests call does so for qa_task_ids; every other step (run_tests,
\* return_solution, return_feedback of either module, an invoke call with
\* its session handling) leaves all registries unchanged.
C26_Step ==
    /\ task_ids \subseteq task_ids'
    /\ ab_task_ids \subseteq ab_task_ids'
    /\ qa_task_ids \subseteq qa_task_ids'
    /\ returned' # returned =>
        /\ last'.op = "generate_code"
        /\ task_ids' = task_ids \cup {last'.ret.task_id}
        /\ Cardinality(task_ids' \ task_ids) <= 1
        /\ UNCHANGED <<ab_task_ids, qa_task_ids>>
    /\ returnedQA' # returnedQA =>
        /\ last'.op = "generate_tests"
        /\ qa_task_ids' = qa_task_ids \cup {last'.ret.qa_task_id}
        /\ Cardinality(qa_task_ids' \ qa_task_ids) <= 1
        /\ UNCHANGED <<task_ids, ab_task_ids>>
    /\ (returned' = returned /\ returnedQA' = returnedQA) => UNCHANGED Registries
    /\ turns' # turns => UNCHANGED Registries

C26_RegistryFrame == [][C26_Step]_vars

\* an invoke call was made, and a finalize call after it, with ids in both
\* registries
C26_Witness ==
    /\ result.called
    /\ last.op \in FinalizeOps
    /\ task_ids # {}
    /\ qa_task_ids # {}

====
